---- MODULE Spec2Model ----
(***************************************************************************)
(* Ingestion pipeline of mempool-sentinel-rs: the SQLite storage engine    *)
(* (src/src/storage/mod.rs), the pending-transaction sampler and the       *)
(* normalizers (src/src/eth.rs), the ingest-once loop (src/src/main.rs),   *)
(* the filter configuration (src/src/config.rs) and the process-wide       *)
(* counters (src/src/ingest_stats.rs).                                     *)
(***************************************************************************)
EXTENDS Integers, Sequences, FiniteSets, TLC

(***************************************************************************)
(* Bounds of the model.                                                    *)
(*   MaxMax      largest `max` a sampling session is started with          *)
(*   flush_every the sampler's batch threshold.  The source fixes it at    *)
(*               100 (eth.rs:120); the model scales it down so that a      *)
(*               threshold flush happens within MaxMax received hashes.    *)
(*   MaxTime     last instant of the model's clock                         *)
(*   MaxHead     highest block number of the chain                         *)
(*   MaxBatch    longest batch a direct insert_transactions call is given  *)
(*   MaxIncs     number of counter increments concurrent callers make      *)
(*   MaxAmount   largest amount one increment adds                         *)
(*   MaxLimit    largest small limit a list query is given                 *)
(*   MaxRows     most rows of a storage state get_top_senders is given     *)
(***************************************************************************)
MaxMax == 3
flush_every == 2
MaxTime == 1
MaxHead == 1
MaxBatch == 2
MaxIncs == 3
MaxAmount == 2
MaxLimit == 3
MaxRows == 5
\* LENGTH(gas_price_wei) <= 18
MaxPriceLen == 18
\* i64::MAX and u128::MAX, scaled to the range of the model's integers
I64Max == 1000000
U128Max == 2000000

(***************************************************************************)
(* Option<T>: None is the empty sequence, Some(v) the one-element one.     *)
(***************************************************************************)
None == <<>>
Some(v) == <<v>>
IsSome(o) == o # <<>>
Unwrap(o) == o[1]

(***************************************************************************)
(* Text formatting, computed digit by digit.                               *)
(***************************************************************************)
HexDigit == <<"0", "1", "2", "3", "4", "5", "6", "7", "8", "9",
              "a", "b", "c", "d", "e", "f">>
DecDigit == <<"0", "1", "2", "3", "4", "5", "6", "7", "8", "9">>

\* format!("{:x}") of a fixed-width hash type: `width` zero-padded hex digits,
\* most significant first.  The values of the model are below 16^8, so the
\* digits from the ninth on are zeros.
LowerHexChars(n, width) ==
    [i \in 1..width |->
        LET k == width - i
        IN  IF k >= 8 THEN "0" ELSE HexDigit[((n \div (16 ^ k)) % 16) + 1]]

RECURSIVE Concat(_)
\* the string of a sequence of characters
Concat(chars) ==
    IF chars = <<>> THEN ""
    ELSE IF Len(chars) = 1 THEN chars[1]
    ELSE LET mid == Len(chars) \div 2
         IN  Concat(SubSeq(chars, 1, mid)) \o Concat(SubSeq(chars, mid + 1, Len(chars)))

RECURSIVE U256ToString(_)
\* U256::to_string: decimal, no padding.
U256ToString(n) ==
    IF n < 10 THEN DecDigit[n + 1]
    ELSE U256ToString(n \div 10) \o DecDigit[(n % 10) + 1]

\* format!("0x{:x}", addr) for an H160 (20 bytes).
address_to_lower_hex(addr) == "0x" \o Concat(LowerHexChars(addr, 40))
\* format!("0x{:x}", hash) for an H256 (32 bytes).
HashToLowerHex(hash) == "0x" \o Concat(LowerHexChars(hash, 64))

(***************************************************************************)
(* The chain collaborator's data: the transactions the node knows, by      *)
(* H256 hash, and the blocks holding them.                                 *)
(***************************************************************************)
\* H160 addresses 0xaaa, 0xccc and 0xddd
Addr == [a |-> 2730, c |-> 3276, d |-> 3549]

PoolHashes == {1, 2, 3}

RawTx(h) ==
    IF h = 1 THEN
        [hash |-> 1, from |-> Addr.c, to |-> Some(Addr.d), value |-> 42, gas |-> 21000,
         gas_price |-> Some(1000), max_fee_per_gas |-> None, nonce |-> 7]
    ELSE IF h = 2 THEN
        [hash |-> 2, from |-> Addr.c, to |-> Some(Addr.a), value |-> 99, gas |-> 30000,
         gas_price |-> None, max_fee_per_gas |-> Some(2000000000), nonce |-> 8]
    ELSE
        [hash |-> 3, from |-> Addr.a, to |-> None, value |-> 123, gas |-> 50000,
         gas_price |-> Some(5000), max_fee_per_gas |-> None, nonce |-> 3]

BlockNums == 0..MaxHead
\* transaction hashes of block b, in block order; the genesis block is empty
ChainBlockTxs(b) == IF b = 0 THEN <<>> ELSE IF b = 1 THEN <<1, 2>> ELSE <<3>>
ChainBlockHash(b) == 2560 + b
ChainBlockTimestamp(b) == 1700000000 + (12 * b)

(***************************************************************************)
(* Normalizers (eth.rs).                                                   *)
(***************************************************************************)
\* U256 -> u128: value.try_into().ok()
TryIntoU128(value) == IF value > U128Max THEN None ELSE Some(value)
\* u128 -> i64: i64::try_from(as_u128).ok()
I64TryFrom(value) == IF value > I64Max THEN None ELSE Some(value)

\* `let as_u128 = value.try_into().ok()?; i64::try_from(as_u128).ok()`
u256_to_i64_opt(value) ==
    IF IsSome(TryIntoU128(value)) THEN I64TryFrom(Unwrap(TryIntoU128(value))) ELSE None

\* a cast that keeps the low bits: `value.as_u64() as i64`
U256AsI64Wrapping(value) ==
    LET low == value % (2 * (I64Max + 1))
    IN  IF low > I64Max THEN low - (2 * (I64Max + 1)) ELSE low
\* u256_to_i64_lossy: unwrap_or(i64::MAX)
u256_to_i64_lossy(value) ==
    IF IsSome(u256_to_i64_opt(value)) THEN Unwrap(u256_to_i64_opt(value)) ELSE I64Max

\* tx.to.map(address_to_lower_hex)
MapAddress(o) == IF IsSome(o) THEN Some(address_to_lower_hex(Unwrap(o))) ELSE None
\* tx.gas_price.map(|v| v.to_string())
MapToString(o) == IF IsSome(o) THEN Some(U256ToString(Unwrap(o))) ELSE None

normalize_tx(tx, block_number, timestamp) ==
    [hash |-> HashToLowerHex(tx.hash),
     from |-> address_to_lower_hex(tx.from),
     to |-> MapAddress(tx.to),
     value_wei |-> U256ToString(tx.value),
     gas |-> u256_to_i64_lossy(tx.gas),
     gas_price_wei |-> MapToString(tx.gas_price),
     max_fee_per_gas_wei |-> MapToString(tx.max_fee_per_gas),
     nonce |-> u256_to_i64_lossy(tx.nonce),
     block_number |-> Some(block_number),
     timestamp |-> Some(timestamp),
     status |-> None]

\* a pending record that keeps a timestamp
NormalizePendingStamped(tx) == [normalize_tx(tx, 0, 0) EXCEPT !.block_number = None]
normalize_pending_tx(tx) ==
    [hash |-> HashToLowerHex(tx.hash),
     from |-> address_to_lower_hex(tx.from),
     to |-> MapAddress(tx.to),
     value_wei |-> U256ToString(tx.value),
     gas |-> u256_to_i64_lossy(tx.gas),
     gas_price_wei |-> MapToString(tx.gas_price),
     max_fee_per_gas_wei |-> MapToString(tx.max_fee_per_gas),
     nonce |-> u256_to_i64_lossy(tx.nonce),
     block_number |-> None,
     timestamp |-> None,
     status |-> None]

\* the normalized records, computed once
PendingTxOf == [h \in PoolHashes |-> normalize_pending_tx(RawTx(h))]
ConfirmedTxOf ==
    [h \in PoolHashes |->
        [b \in BlockNums |-> normalize_tx(RawTx(h), b, ChainBlockTimestamp(b))]]

BlockInfoOf ==
    [b \in BlockNums |->
        [number |-> b, hash |-> HashToLowerHex(ChainBlockHash(b)),
         timestamp |-> ChainBlockTimestamp(b)]]

(***************************************************************************)
(* Filter configuration (config.rs).  The value of FILTER_ADDRESSES is a   *)
(* sequence of characters.                                                 *)
(***************************************************************************)
UpperOf == [c \in {"a", "b", "c", "d", "e", "f"} |->
              CASE c = "a" -> "A" [] c = "b" -> "B" [] c = "c" -> "C"
                [] c = "d" -> "D" [] c = "e" -> "E" [] OTHER -> "F"]
\* char::to_lowercase on the characters that occur
LowerChar(c) ==
    CASE c = "A" -> "a" [] c = "B" -> "b" [] c = "C" -> "c"
      [] c = "D" -> "d" [] c = "E" -> "e" [] c = "F" -> "f" [] OTHER -> c

RECURSIVE SplitFrom(_, _)
\* str::split(','): the pieces between commas, from index `start` on
SplitFrom(chars, start) ==
    LET commas == {i \in start..Len(chars) : chars[i] = ","}
    IN  IF commas = {} THEN <<SubSeq(chars, start, Len(chars))>>
        ELSE LET c == CHOOSE i \in commas : \A j \in commas : i <= j
             IN  <<SubSeq(chars, start, c - 1)>> \o SplitFrom(chars, c + 1)
Split(chars) == SplitFrom(chars, 1)

\* str::trim: without the leading and trailing spaces
Trim(chars) ==
    LET solid == {i \in 1..Len(chars) : chars[i] # " "}
    IN  IF solid = {} THEN <<>>
        ELSE SubSeq(chars, CHOOSE i \in solid : \A j \in solid : i <= j,
                           CHOOSE i \in solid : \A j \in solid : i >= j)
ToLowercase(chars) == [i \in 1..Len(chars) |-> LowerChar(chars[i])]

parse_filter_addresses(raw) ==
    LET pieces == Split(raw)
        cleaned == [i \in 1..Len(pieces) |-> ToLowercase(Trim(pieces[i]))]
    IN  {Concat(cleaned[i]) : i \in {j \in 1..Len(cleaned) : cleaned[j] # <<>>}}

\* Config::from_env, the FILTER_ADDRESSES part: an empty set becomes None
FilterAddressesEmptyKept(env) ==
    IF IsSome(env) THEN Some(parse_filter_addresses(Unwrap(env))) ELSE None
FilterAddressesFromEnv(env) ==
    IF IsSome(env)
    THEN LET set == parse_filter_addresses(Unwrap(env))
         IN  IF set = {} THEN None ELSE Some(set)
    ELSE None

\* an address as a user may write it: upper-case hex digits
UpperAddressChars(addr) ==
    LET low == LowerHexChars(addr, 40)
    IN  <<"0", "x">> \o
        [i \in 1..Len(low) |-> IF low[i] \in DOMAIN UpperOf THEN UpperOf[low[i]] ELSE low[i]]

\* the values FILTER_ADDRESSES takes in the model: unset, " , ", "0xAAA..",
\* " 0xDDD.. ,"
FilterEnvs ==
    {None,
     Some(<<" ", ",", " ">>),
     Some(UpperAddressChars(Addr.a)),
     Some(<<" ">> \o UpperAddressChars(Addr.d) \o <<" ", ",">>)}

\* config.filter_addresses for each of them, computed once
EnvFilters == [env \in FilterEnvs |-> FilterAddressesFromEnv(env)]

\* include_tx (eth.rs) and the closure of filter_txs (main.rs)
IncludeTxAnd(tx, filter) ==
    IF IsSome(filter)
    THEN LET from_match == tx.from \in Unwrap(filter)
             to_match == IF IsSome(tx.to) THEN Unwrap(tx.to) \in Unwrap(filter) ELSE FALSE
         IN  from_match /\ to_match
    ELSE TRUE
include_tx(tx, filter) ==
    IF IsSome(filter)
    THEN LET from_match == tx.from \in Unwrap(filter)
             to_match == IF IsSome(tx.to) THEN Unwrap(tx.to) \in Unwrap(filter) ELSE FALSE
         IN  from_match \/ to_match
    ELSE TRUE

filter_txs(txs, filter) == SelectSeq(txs, LAMBDA tx : include_tx(tx, filter))

(***************************************************************************)
(* State.                                                                  *)
(***************************************************************************)
VARIABLES
    blocks,         \* committed rows of table blocks
    transactions,   \* committed rows of table transactions
    txn,            \* the open write transaction: None, or Some(rows not yet committed)
    call,           \* the insert_transactions call in progress
    observed,       \* what a concurrent reader saw during the call in progress
    proc,           \* the command the process runs: "none", "lib", "sample", "ingest"
    pc,             \* the command's position
    stats,          \* PendingSampleStats of the session
    buffer,         \* the sampler's buffer
    max,            \* the session's max count
    filters,        \* the address filter of the command
    deadline,       \* the session's deadline
    timer,          \* expiry of the timeout the session waits under
    now,            \* the clock
    hash,           \* the pending hash being processed
    INGEST_STATS,   \* the process-wide counters
    todo,           \* ingest-once: blocks_with_txs still to store
    total,          \* ingest-once: total_blocks and total_txs
    hist,           \* history of the running command, for the properties
    callers,        \* concurrent callers of the counters: position and argument
    snap,           \* the snapshot() call in progress and the loads it has made
    added,          \* amounts added to each counter by completed increments
    raw_tx,         \* a raw chain transaction handed to a normalizer
    normal_out,     \* None, or Some of what the normalizer made of it
    block_call,     \* the last insert_block call made on its own, and its result
    fetch_call,     \* a fetch_recent_blocks call made on its own, and its result
    gas_call,       \* a get_gas_stats call: its last_n_blocks and its result
    query_call      \* a get_recent_transactions or get_top_senders call and its result

vars == <<blocks, transactions, txn, call, observed, proc, pc, stats, buffer, max,
          filters, deadline, timer, now, hash, INGEST_STATS, todo, total, hist,
          callers, snap, added, raw_tx, normal_out, block_call, fetch_call,
          gas_call, query_call>>

storageVars == <<blocks, transactions, txn, call, observed>>
samplerVars == <<stats, buffer, max, deadline, timer, now, hash>>
ingestVars == <<todo, total>>
\* state of the components exercised on their own
unitVars == <<callers, snap, added, raw_tx, normal_out, block_call, fetch_call, gas_call,
              query_call>>
\* what the counters' callers, the normalizers, insert_block,
\* fetch_recent_blocks, get_gas_stats and the two list queries leave alone
besideCounters == <<raw_tx, normal_out, block_call, fetch_call, gas_call, query_call>>
besideNormalizers == <<callers, snap, added, block_call, fetch_call, gas_call, query_call>>
besideBlockCall ==
    <<callers, snap, added, raw_tx, normal_out, fetch_call, gas_call, query_call>>
besideFetchCall ==
    <<callers, snap, added, raw_tx, normal_out, block_call, gas_call, query_call>>
besideGasCall ==
    <<callers, snap, added, raw_tx, normal_out, block_call, fetch_call, query_call>>
besideQueryCall ==
    <<callers, snap, added, raw_tx, normal_out, block_call, fetch_call, gas_call>>

NoCall == [st |-> "none", txs |-> <<>>, i |-> 0, pre |-> {}, why |-> ""]
DefaultStats == [received |-> 0, fetched |-> 0, inserted |-> 0, insert_errors |-> 0]
NewIngestStats == [blocks |-> 0, transactions |-> 0, pending_transactions |-> 0]
NoHist == [pushed |-> 0, submitted |-> 0, ok_sizes |-> 0, rows0 |-> 0, exit |-> "none",
           blocks0 |-> 0, env |-> None, lookup |-> ""]
NoTotal == [blocks |-> 0, txs |-> 0]
\* a deadline no run of the model reaches
Unlimited == MaxTime + 1

(***************************************************************************)
(* Storage engine (storage/mod.rs).                                        *)
(***************************************************************************)
StoredHashes(rows) == {r.hash : r \in rows}
StoredBlockNumbers == {b.number : b \in blocks}

\* FOREIGN KEY(block_number) REFERENCES blocks(block_number), enforced by the
\* connection (sqlx turns PRAGMA foreign_keys on)
ForeignKeyUnchecked(tx) == FALSE
ForeignKeyViolated(tx) ==
    IsSome(tx.block_number) /\ Unwrap(tx.block_number) \notin StoredBlockNumbers

\* INSERT ... ON CONFLICT(hash) DO NOTHING, executed on the open transaction:
\* the new row is staged, invisible to other connections until the commit
ExecuteOnPool(committed, staged, tx) ==
    IF tx.hash \in StoredHashes(committed \cup staged)
    THEN [committed |-> committed, staged |-> staged]
    ELSE [committed |-> committed \cup {tx}, staged |-> staged]
ExecuteReplacing(committed, staged, tx) ==
    [committed |-> {r \in committed : r.hash # tx.hash},
     staged |-> {r \in staged : r.hash # tx.hash} \cup {tx}]
ExecuteInsert(committed, staged, tx) ==
    IF tx.hash \in StoredHashes(committed \cup staged)
    THEN [committed |-> committed, staged |-> staged]
    ELSE [committed |-> committed, staged |-> staged \cup {tx}]

\* txn.commit(): the staged rows become visible together
CommitRows(committed, staged) == committed \cup staged

\* INSERT INTO blocks ... ON CONFLICT(block_number) DO NOTHING
\* ON CONFLICT(block_number) DO UPDATE
InsertOrReplaceBlock(rows, block) ==
    {b \in rows : b.number # block.number} \cup {block}
InsertOrIgnoreBlock(rows, block) ==
    IF block.number \in {b.number : b \in rows} THEN rows ELSE rows \cup {block}

\* the caller enters insert_transactions(pool, txs)
CallInsertTransactions(txs) ==
    /\ call' = [st |-> "begin", txs |-> txs, i |-> 1, pre |-> transactions, why |-> ""]
    /\ UNCHANGED <<blocks, transactions, txn, observed>>

\* pool.begin().await?
PoolBegin ==
    /\ call.st = "begin"
    /\ \E ok \in BOOLEAN :
         IF ok
         THEN /\ txn' = Some({})
              /\ call' = [call EXCEPT !.st = "exec"]
         ELSE /\ txn' = None
              /\ call' = [call EXCEPT !.st = "err", !.why = "io"]
    /\ UNCHANGED <<blocks, transactions, observed>>
    /\ UNCHANGED <<proc, pc, filters, INGEST_STATS, hist>>
    /\ UNCHANGED samplerVars /\ UNCHANGED ingestVars /\ UNCHANGED unitVars

\* one iteration of `for tx in txs`: the statement succeeds, or it fails (an I/O
\* error, or the foreign key of a row it would insert) and `?` drops the
\* transaction, which rolls it back
ExecuteRow ==
    /\ call.st = "exec"
    /\ call.i <= Len(call.txs)
    /\ \E io_ok \in BOOLEAN :
         LET tx == call.txs[call.i]
             inserts == tx.hash \notin StoredHashes(transactions \cup Unwrap(txn))
             after == ExecuteInsert(transactions, Unwrap(txn), tx)
         IN  IF io_ok /\ ~(inserts /\ ForeignKeyViolated(tx))
             THEN /\ transactions' = after.committed
                  /\ txn' = Some(after.staged)
                  /\ call' = [call EXCEPT !.i = call.i + 1]
             ELSE /\ transactions' = transactions
                  /\ txn' = None
                  /\ call' = [call EXCEPT !.st = "err",
                                          !.why = IF io_ok THEN "fk" ELSE "io"]
    /\ UNCHANGED <<blocks, observed>>
    /\ UNCHANGED <<proc, pc, filters, INGEST_STATS, hist>>
    /\ UNCHANGED samplerVars /\ UNCHANGED ingestVars /\ UNCHANGED unitVars

\* txn.commit().await?
Commit ==
    /\ call.st = "exec"
    /\ call.i > Len(call.txs)
    /\ \E ok \in BOOLEAN :
         IF ok
         THEN /\ transactions' = CommitRows(transactions, Unwrap(txn))
              /\ call' = [call EXCEPT !.st = "ok"]
         ELSE /\ transactions' = transactions
              /\ call' = [call EXCEPT !.st = "err", !.why = "io"]
    /\ txn' = None
    /\ UNCHANGED <<blocks, observed>>
    /\ UNCHANGED <<proc, pc, filters, INGEST_STATS, hist>>
    /\ UNCHANGED samplerVars /\ UNCHANGED ingestVars /\ UNCHANGED unitVars

\* a query of another connection of the pool (get_recent_transactions,
\* get_top_senders, get_gas_stats) between the call's BEGIN and its return: it
\* reads the committed rows
ReadDuringWrite ==
    /\ call.st \in {"exec", "ok", "err"}
    /\ observed' = Some(transactions)
    /\ UNCHANGED <<blocks, transactions, txn, call>>
    /\ UNCHANGED <<proc, pc, filters, INGEST_STATS, hist>>
    /\ UNCHANGED samplerVars /\ UNCHANGED ingestVars /\ UNCHANGED unitVars

Returned == call.st \in {"ok", "err"}
\* the call has returned to its caller
EndCall ==
    /\ call' = NoCall
    /\ observed' = None
    /\ UNCHANGED <<blocks, transactions, txn>>

(***************************************************************************)
(* Direct use of the storage API, as the integration tests' seed_data.     *)
(***************************************************************************)
\* the records the callers hold: the chain's transactions as pending and as
\* confirmed in their block, and the chain's blocks
TxUniverse ==
    {PendingTxOf[h] : h \in PoolHashes} \cup
    UNION {{ConfirmedTxOf[ChainBlockTxs(b)[i]][b] : i \in 1..Len(ChainBlockTxs(b))} :
           b \in BlockNums}
BlockUniverse == {BlockInfoOf[b] : b \in BlockNums}
Batches == UNION {[1..n -> TxUniverse] : n \in 0..MaxBatch}

LibInsertBlock ==
    /\ proc = "none"
    /\ \E block \in BlockUniverse, ok \in BOOLEAN :
         blocks' = IF ok THEN InsertOrIgnoreBlock(blocks, block) ELSE blocks
    /\ UNCHANGED <<transactions, txn, call, observed>>
    /\ UNCHANGED <<proc, pc, filters, INGEST_STATS, hist>>
    /\ UNCHANGED samplerVars /\ UNCHANGED ingestVars /\ UNCHANGED unitVars

LibInsertTransactions ==
    /\ proc = "none"
    /\ \E txs \in Batches : CallInsertTransactions(txs)
    /\ proc' = "lib"
    /\ pc' = "lib_txs"
    /\ UNCHANGED <<filters, INGEST_STATS, hist>>
    /\ UNCHANGED samplerVars /\ UNCHANGED ingestVars /\ UNCHANGED unitVars

LibReturn ==
    /\ proc = "lib"
    /\ Returned
    /\ EndCall
    /\ proc' = "none"
    /\ pc' = "idle"
    /\ UNCHANGED <<filters, INGEST_STATS, hist>>
    /\ UNCHANGED samplerVars /\ UNCHANGED ingestVars /\ UNCHANGED unitVars

(***************************************************************************)
(* EthClient::sample_pending (eth.rs), started by main's MempoolSample.    *)
(***************************************************************************)
\* deadline.saturating_duration_since(Instant::now())
SaturatingDurationSince(d, t) == IF d > t THEN d - t ELSE 0

\* tokio::time::timeout(remaining, ..): the instant the wait gives up
NoTimeout(remaining) == Unlimited + 1
TimeoutAt(remaining) == now + remaining

\* the position after the last statement of the loop body
AfterIteration(received) == IF received >= max THEN "drain" ELSE "loop"
ExitAfter(received) == IF received >= max THEN "max" ELSE hist.exit

\* main's MempoolSample: the configuration, then sample_pending up to the loop
StartSampleOf(envs, durations, maxes) ==
    /\ proc = "none"
    /\ \E env \in envs, duration \in durations, m \in maxes, connected \in BOOLEAN :
         IF connected
         THEN /\ proc' = "sample"
              /\ pc' = "loop"
              /\ filters' = EnvFilters[env]
              /\ stats' = DefaultStats
              /\ buffer' = <<>>
              /\ max' = m
              /\ now' = 0
              /\ deadline' = 0 + duration
              /\ INGEST_STATS' = NewIngestStats
              /\ hist' = [NoHist EXCEPT !.rows0 = Cardinality(transactions), !.env = env]
              /\ UNCHANGED <<timer, hash>>
         ELSE UNCHANGED <<proc, pc, filters, INGEST_STATS, hist, stats, buffer, max,
                          deadline, timer, now, hash>>
    /\ UNCHANGED storageVars
    /\ UNCHANGED ingestVars /\ UNCHANGED unitVars

\* any configuration, duration and max count
StartSample == StartSampleOf(FilterEnvs, (0..MaxTime) \cup {Unlimited}, 0..MaxMax)
\* the shortest sessions that write: no filter, no deadline within the run, one hash
StartSampleUnfiltered == StartSampleOf({None}, {Unlimited}, {1})
\* any configuration and max count, no deadline within the run
StartSampleUntimed == StartSampleOf(FilterEnvs, {Unlimited}, 0..MaxMax)

\* time passes.  The session reads the clock at the head of the loop and while
\* it waits, and only to compare it with the deadline: the clock is followed up
\* to the deadline, and not at all for a deadline beyond the run.
Tick ==
    /\ proc = "sample"
    /\ pc \in {"loop", "wait"}
    /\ deadline <= MaxTime
    /\ now < deadline
    /\ now' = now + 1
    /\ UNCHANGED <<stats, buffer, max, deadline, timer, hash>>
    /\ UNCHANGED <<proc, pc, filters, INGEST_STATS, hist>>
    /\ UNCHANGED storageVars /\ UNCHANGED ingestVars /\ UNCHANGED unitVars

\* `while stats.received < max`, then the check of the remaining time
LoopHead ==
    /\ proc = "sample"
    /\ pc = "loop"
    /\ LET remaining == SaturatingDurationSince(deadline, now)
       IN  IF ~(stats.received < max)
           THEN /\ pc' = "drain"
                /\ hist' = [hist EXCEPT !.exit = "max"]
                /\ timer' = timer
           ELSE IF remaining = 0
           THEN /\ pc' = "drain"
                /\ hist' = [hist EXCEPT !.exit = "deadline"]
                /\ timer' = timer
           ELSE /\ pc' = "wait"
                /\ hist' = hist
                /\ timer' = TimeoutAt(remaining)
    /\ UNCHANGED <<stats, buffer, max, deadline, now, hash>>
    /\ UNCHANGED <<proc, filters, INGEST_STATS>>
    /\ UNCHANGED storageVars /\ UNCHANGED ingestVars /\ UNCHANGED unitVars

\* sub.next() yields a hash: stats.received += 1
WaitReceive ==
    /\ proc = "sample"
    /\ pc = "wait"
    /\ \E h \in PoolHashes : hash' = h
    /\ stats' = [stats EXCEPT !.received = stats.received + 1]
    /\ pc' = "fetch"
    /\ timer' = 0
    /\ UNCHANGED <<buffer, max, deadline, now>>
    /\ UNCHANGED <<proc, filters, INGEST_STATS, hist>>
    /\ UNCHANGED storageVars /\ UNCHANGED ingestVars /\ UNCHANGED unitVars

\* sub.next() yields None: the stream has ended
WaitStreamEnd ==
    /\ proc = "sample"
    /\ pc = "wait"
    /\ pc' = "drain"
    /\ hist' = [hist EXCEPT !.exit = "stream"]
    /\ timer' = 0
    /\ UNCHANGED <<stats, buffer, max, deadline, now, hash>>
    /\ UNCHANGED <<proc, filters, INGEST_STATS>>
    /\ UNCHANGED storageVars /\ UNCHANGED ingestVars /\ UNCHANGED unitVars

\* the timeout elapses first
WaitTimeout ==
    /\ proc = "sample"
    /\ pc = "wait"
    /\ now >= timer
    /\ pc' = "drain"
    /\ hist' = [hist EXCEPT !.exit = "timeout"]
    /\ timer' = 0
    /\ UNCHANGED <<stats, buffer, max, deadline, now, hash>>
    /\ UNCHANGED <<proc, filters, INGEST_STATS>>
    /\ UNCHANGED storageVars /\ UNCHANGED ingestVars /\ UNCHANGED unitVars

\* the match on storage::insert_transactions' result, for a batch of n transactions
StatsCountingFailed(st, ok, n) ==
    IF ok THEN [st EXCEPT !.inserted = st.inserted + n]
    ELSE [st EXCEPT !.inserted = st.inserted + n, !.insert_errors = st.insert_errors + 1]
StatsAfterFlush(st, ok, n) ==
    IF ok THEN [st EXCEPT !.inserted = st.inserted + n]
    ELSE [st EXCEPT !.insert_errors = st.insert_errors + 1]

\* IngestStats::inc_* : fetch_add on one counter
inc_pending_transactions(counters, n) ==
    [counters EXCEPT !.pending_transactions = counters.pending_transactions + n]
inc_transactions(counters, n) ==
    [counters EXCEPT !.transactions = counters.transactions + n]
inc_blocks(counters, n) == [counters EXCEPT !.blocks = counters.blocks + n]

\* INGEST_STATS after a flush of n transactions
CountersCountingFetched(counters, ok, n) ==
    IF ok THEN inc_pending_transactions(counters, stats.fetched) ELSE counters
CountersAfterFlush(counters, ok, n) ==
    IF ok THEN inc_pending_transactions(counters, n) ELSE counters

\* buffer.clear() after a threshold flush, whatever its outcome
BufferKeptOnError(buf, ok) == IF ok THEN <<>> ELSE buf
BufferAfterFlush(buf, ok) == <<>>

\* `if buffer.len() >= flush_every` after the match on the lookup
ThresholdExceeded(buf) == Len(buf) > flush_every
ThresholdReached(buf) == Len(buf) >= flush_every

\* `if !buffer.is_empty()` before the final flush
FinalFlushAtThreshold(buf) == Len(buf) >= flush_every
\* no flush after the loop
FinalFlushSkipped(buf) == FALSE
\* a flush after the loop whatever the buffer holds
FinalFlushAlways(buf) == TRUE
FinalFlushNeeded(buf) == buf # <<>>

\* a count of every lookup, whatever it returned
FetchedCountingLookups(st, res) == [st EXCEPT !.fetched = st.fetched + 1]
\* `stats.fetched += 1` in the arm Ok(Some(tx)) alone
FetchedAfterLookup(st, res) ==
    IF res = "some" THEN [st EXCEPT !.fetched = st.fetched + 1] ELSE st

\* the match on get_transaction(hash): Ok(Some(tx)), Ok(None) or Err, then the
\* threshold check
Fetch ==
    /\ proc = "sample"
    /\ pc = "fetch"
    /\ \E res \in {"some", "none", "err"} :
         LET normalized == PendingTxOf[hash]
             keep == res = "some" /\ include_tx(normalized, filters)
             buf == IF keep THEN Append(buffer, normalized) ELSE buffer
         IN  /\ stats' = FetchedAfterLookup(stats, res)
             /\ buffer' = buf
             /\ IF ThresholdReached(buf)
                THEN /\ pc' = "flush"
                     /\ CallInsertTransactions(buf)
                     /\ hist' = [hist EXCEPT !.pushed = IF keep THEN hist.pushed + 1
                                                       ELSE hist.pushed,
                                             !.lookup = res]
                ELSE /\ pc' = AfterIteration(stats.received)
                     /\ UNCHANGED storageVars
                     /\ hist' = [hist EXCEPT !.pushed = IF keep THEN hist.pushed + 1
                                                       ELSE hist.pushed,
                                             !.exit = ExitAfter(stats.received),
                                             !.lookup = res]
    /\ UNCHANGED <<max, deadline, timer, now, hash>>
    /\ UNCHANGED <<proc, filters, INGEST_STATS>>
    /\ UNCHANGED ingestVars /\ UNCHANGED unitVars

\* insert_transactions has returned to the threshold flush
FlushReturn ==
    /\ proc = "sample"
    /\ pc = "flush"
    /\ Returned
    /\ LET ok == call.st = "ok"
           n == Len(buffer)
       IN  /\ stats' = StatsAfterFlush(stats, ok, n)
           /\ INGEST_STATS' = CountersAfterFlush(INGEST_STATS, ok, n)
           /\ buffer' = BufferAfterFlush(buffer, ok)
           /\ hist' = [hist EXCEPT !.submitted = hist.submitted + n,
                                   !.ok_sizes = IF ok THEN hist.ok_sizes + n
                                                ELSE hist.ok_sizes,
                                   !.exit = ExitAfter(stats.received)]
    /\ pc' = AfterIteration(stats.received)
    /\ EndCall
    /\ UNCHANGED <<max, deadline, timer, now, hash>>
    /\ UNCHANGED <<proc, filters>>
    /\ UNCHANGED ingestVars /\ UNCHANGED unitVars

\* after the loop: the final flush of a non-empty buffer
Drain ==
    /\ proc = "sample"
    /\ pc = "drain"
    /\ IF FinalFlushNeeded(buffer)
       THEN /\ pc' = "final"
            /\ CallInsertTransactions(buffer)
       ELSE /\ pc' = "done"
            /\ UNCHANGED storageVars
    /\ UNCHANGED samplerVars
    /\ UNCHANGED <<proc, filters, INGEST_STATS, hist>>
    /\ UNCHANGED ingestVars /\ UNCHANGED unitVars

\* insert_transactions has returned to the final flush; Ok(stats) follows
FinalReturn ==
    /\ proc = "sample"
    /\ pc = "final"
    /\ Returned
    /\ LET ok == call.st = "ok"
           n == Len(buffer)
       IN  /\ stats' = StatsAfterFlush(stats, ok, n)
           /\ INGEST_STATS' = CountersAfterFlush(INGEST_STATS, ok, n)
           /\ hist' = [hist EXCEPT !.submitted = hist.submitted + n,
                                   !.ok_sizes = IF ok THEN hist.ok_sizes + n
                                                ELSE hist.ok_sizes]
    /\ pc' = "done"
    /\ EndCall
    /\ UNCHANGED <<buffer, max, deadline, timer, now, hash>>
    /\ UNCHANGED <<proc, filters>>
    /\ UNCHANGED ingestVars /\ UNCHANGED unitVars

\* main logs the statistics and the process ends
SampleExit ==
    /\ proc = "sample"
    /\ pc = "done"
    /\ proc' = "none"
    /\ pc' = "idle"
    /\ stats' = DefaultStats
    /\ buffer' = <<>>
    /\ max' = 0
    /\ deadline' = 0
    /\ timer' = 0
    /\ now' = 0
    /\ hash' = 0
    /\ filters' = None
    /\ INGEST_STATS' = NewIngestStats
    /\ hist' = NoHist
    /\ UNCHANGED storageVars
    /\ UNCHANGED ingestVars /\ UNCHANGED unitVars

(***************************************************************************)
(* Ingest-once: fetch_recent_blocks (eth.rs) and main's loop (main.rs).    *)
(***************************************************************************)
\* what the node answers for a block number: the block with its transactions
\* inline, the block by the header-and-hashes fallback, no block, or an error
Responses == {"inline", "fallback", "missing", "error"}

BlockEntry(num) ==
    <<BlockInfoOf[num],
      [i \in 1..Len(ChainBlockTxs(num)) |-> ConfirmedTxOf[ChainBlockTxs(num)[i]][num]]>>

\* the requests made to the node: the head's number, a block with its
\* transactions, a block with its transaction hashes
HeadRequest == [method |-> "get_block_number", block_id |-> None]
WithTxsRequest(num) == [method |-> "get_block_with_txs", block_id |-> Some(num)]
HeaderRequest(num) == [method |-> "get_block", block_id |-> Some(num)]

\* the block requests of one iteration: get_block_with_txs, and get_block when
\* that gave no block with its transactions
RequestsFor(num, answer) ==
    IF answer \in {"inline", "error"} THEN <<WithTxsRequest(num)>>
    ELSE <<WithTxsRequest(num), HeaderRequest(num)>>

RECURSIVE FetchBlocksFrom(_, _, _)
\* the loop `for num in start..=latest`, from num on; `asked` is the sequence
\* of the block requests made
FetchBlocksFrom(num, latest, resp) ==
    IF num > latest THEN [ok |-> TRUE, out |-> <<>>, asked |-> <<>>]
    ELSE IF resp[num] = "error"
    THEN [ok |-> FALSE, out |-> <<>>, asked |-> RequestsFor(num, resp[num])]
    ELSE LET rest == FetchBlocksFrom(num + 1, latest, resp)
             here == IF resp[num] = "missing" THEN <<>> ELSE <<BlockEntry(num)>>
         IN  [ok |-> rest.ok,
              out |-> IF rest.ok THEN here \o rest.out ELSE <<>>,
              asked |-> RequestsFor(num, resp[num]) \o rest.asked]

\* latest.saturating_sub(count - 1)
SaturatingSub(a, b) == IF a > b THEN a - b ELSE 0

fetch_recent_blocks(count, latest, resp) ==
    IF count = 0 THEN [ok |-> TRUE, out |-> <<>>, asked |-> <<>>]
    ELSE LET looped == FetchBlocksFrom(SaturatingSub(latest, count - 1), latest, resp)
         IN  [looped EXCEPT !.asked = <<HeadRequest>> \o looped.asked]

StartIngest ==
    /\ proc = "none"
    /\ \E env \in FilterEnvs, count \in 0..(MaxHead + 1), latest \in BlockNums,
          resp \in [BlockNums -> Responses] :
         LET fetched == fetch_recent_blocks(count, latest, resp)
         IN  IF fetched.ok
             THEN /\ proc' = "ingest"
                  /\ pc' = "ingest_loop"
                  /\ filters' = EnvFilters[env]
                  /\ todo' = fetched.out
                  /\ total' = NoTotal
                  /\ INGEST_STATS' = NewIngestStats
                  /\ hist' = [NoHist EXCEPT !.rows0 = Cardinality(transactions),
                                            !.blocks0 = Cardinality(blocks),
                                            !.env = env]
             ELSE UNCHANGED <<proc, pc, filters, todo, total, INGEST_STATS, hist>>
    /\ UNCHANGED storageVars
    /\ UNCHANGED samplerVars /\ UNCHANGED unitVars

\* one iteration of `for (block_info, txs) in blocks_with_txs`, up to the call
\* of insert_transactions
IngestBlock ==
    /\ proc = "ingest"
    /\ pc = "ingest_loop"
    /\ todo # <<>>
    /\ LET block_info == Head(todo)[1]
           filtered == filter_txs(Head(todo)[2], filters)
       IN  \E ok \in BOOLEAN :
             IF ~ok
             THEN /\ pc' = "ingest_failed"
                  /\ UNCHANGED <<todo, total, INGEST_STATS>>
                  /\ UNCHANGED storageVars
             ELSE IF filtered # <<>>
             THEN /\ blocks' = InsertOrIgnoreBlock(blocks, block_info)
                  /\ pc' = "ingest_txs"
                  /\ call' = [st |-> "begin", txs |-> filtered, i |-> 1,
                              pre |-> transactions, why |-> ""]
                  /\ UNCHANGED <<transactions, txn, observed>>
                  /\ UNCHANGED <<todo, total, INGEST_STATS>>
             ELSE /\ blocks' = InsertOrIgnoreBlock(blocks, block_info)
                  /\ pc' = "ingest_loop"
                  /\ todo' = Tail(todo)
                  /\ total' = [total EXCEPT !.blocks = total.blocks + 1]
                  /\ UNCHANGED <<transactions, txn, call, observed, INGEST_STATS>>
    /\ UNCHANGED <<proc, filters, hist>>
    /\ UNCHANGED samplerVars /\ UNCHANGED unitVars

\* insert_transactions has returned to the loop: `?`, then the counters
IngestTxsReturn ==
    /\ proc = "ingest"
    /\ pc = "ingest_txs"
    /\ Returned
    /\ LET n == Len(call.txs)
       IN  IF call.st = "ok"
           THEN /\ INGEST_STATS' = inc_transactions(INGEST_STATS, n)
                /\ total' = [blocks |-> total.blocks + 1, txs |-> total.txs + n]
                /\ todo' = Tail(todo)
                /\ pc' = "ingest_loop"
           ELSE /\ pc' = "ingest_failed"
                /\ UNCHANGED <<INGEST_STATS, total, todo>>
    /\ EndCall
    /\ UNCHANGED <<proc, filters, hist>>
    /\ UNCHANGED samplerVars /\ UNCHANGED unitVars

\* after the loop: `if total_blocks > 0 { inc_blocks }`
IngestFinish ==
    /\ proc = "ingest"
    /\ pc = "ingest_loop"
    /\ todo = <<>>
    /\ INGEST_STATS' = IF total.blocks > 0 THEN inc_blocks(INGEST_STATS, total.blocks)
                       ELSE INGEST_STATS
    /\ pc' = "ingest_done"
    /\ UNCHANGED <<proc, filters, hist, todo, total>>
    /\ UNCHANGED storageVars
    /\ UNCHANGED samplerVars /\ UNCHANGED unitVars

\* the process ends, with Ok(()) or with the storage error
IngestExit ==
    /\ proc = "ingest"
    /\ pc \in {"ingest_done", "ingest_failed"}
    /\ proc' = "none"
    /\ pc' = "idle"
    /\ filters' = None
    /\ todo' = <<>>
    /\ total' = NoTotal
    /\ INGEST_STATS' = NewIngestStats
    /\ hist' = NoHist
    /\ UNCHANGED storageVars
    /\ UNCHANGED samplerVars /\ UNCHANGED unitVars

(***************************************************************************)
(* The counters under concurrent callers (ingest_stats.rs).  Each caller   *)
(* enters inc_blocks, inc_transactions or inc_pending_transactions and     *)
(* then executes its fetch_add, one atomic read-modify-write; snapshot()   *)
(* makes three loads, one after the other.  The orderings are Relaxed:     *)
(* the loads are modelled in program order.                                *)
(***************************************************************************)
Callers == {"ingest", "sampler"}
CounterNames == {"blocks", "transactions", "pending_transactions"}

IdleCaller == [pc |-> "idle", counter |-> "", n |-> 0, seen |-> 0]
NoSnapshot == [pc |-> "none", blocks |-> 0, transactions |-> 0,
               pending_transactions |-> 0, held |-> {}]
NothingAdded == [blocks |-> 0, transactions |-> 0, pending_transactions |-> 0,
                 calls |-> 0, raced |-> FALSE]

\* a store of the value read at entry plus n, in place of the atomic add
StoreSeenPlus(counters, counter, n, seen) == [counters EXCEPT ![counter] = seen + n]
\* self.<counter>.fetch_add(n, Ordering::Relaxed)
FetchAddRelaxed(counters, counter, n, seen) ==
    IF counter = "blocks" THEN inc_blocks(counters, n)
    ELSE IF counter = "transactions" THEN inc_transactions(counters, n)
    ELSE inc_pending_transactions(counters, n)

SnapshotInProgress == snap.pc \in {"called", "blocks", "transactions"}

\* a caller enters one of the three increment methods with amount n
CallIncrement ==
    /\ proc = "none"
    /\ added.calls < MaxIncs
    /\ \E c \in Callers, counter \in CounterNames, n \in 1..MaxAmount :
         /\ callers[c].pc = "idle"
         /\ callers' = [callers EXCEPT ![c] = [pc |-> "call", counter |-> counter,
                                               n |-> n, seen |-> INGEST_STATS[counter]]]
    /\ added' = [added EXCEPT !.calls = added.calls + 1]
    /\ UNCHANGED <<snap, INGEST_STATS>>
    /\ UNCHANGED <<proc, pc, filters, hist>>
    /\ UNCHANGED storageVars /\ UNCHANGED samplerVars /\ UNCHANGED ingestVars
    /\ UNCHANGED besideCounters

\* the caller's fetch_add, and its return
FetchAdd ==
    /\ \E c \in Callers :
         /\ callers[c].pc = "call"
         /\ INGEST_STATS' = FetchAddRelaxed(INGEST_STATS, callers[c].counter,
                                            callers[c].n, callers[c].seen)
         /\ added' = [added EXCEPT
                ![callers[c].counter] = added[callers[c].counter] + callers[c].n,
                !.raced = added.raced
                          \/ callers[c].seen # INGEST_STATS[callers[c].counter]]
         /\ callers' = [callers EXCEPT ![c] = IdleCaller]
    /\ snap' = IF SnapshotInProgress
               THEN [snap EXCEPT !.held = snap.held \cup {INGEST_STATS'}]
               ELSE snap
    /\ UNCHANGED <<proc, pc, filters, hist>>
    /\ UNCHANGED storageVars /\ UNCHANGED samplerVars /\ UNCHANGED ingestVars
    /\ UNCHANGED besideCounters

\* stats_ingest calls INGEST_STATS.snapshot()
SnapshotCall ==
    /\ proc = "none"
    /\ snap.pc = "none"
    /\ snap' = [NoSnapshot EXCEPT !.pc = "called", !.held = {INGEST_STATS}]
    /\ UNCHANGED <<callers, added, INGEST_STATS>>
    /\ UNCHANGED <<proc, pc, filters, hist>>
    /\ UNCHANGED storageVars /\ UNCHANGED samplerVars /\ UNCHANGED ingestVars
    /\ UNCHANGED besideCounters

\* blocks: self.blocks.load(Ordering::Relaxed)
LoadBlocks ==
    /\ snap.pc = "called"
    /\ snap' = [snap EXCEPT !.pc = "blocks", !.blocks = INGEST_STATS.blocks]
    /\ UNCHANGED <<callers, added, INGEST_STATS>>
    /\ UNCHANGED <<proc, pc, filters, hist>>
    /\ UNCHANGED storageVars /\ UNCHANGED samplerVars /\ UNCHANGED ingestVars
    /\ UNCHANGED besideCounters

\* transactions: self.transactions.load(Ordering::Relaxed)
LoadTransactions ==
    /\ snap.pc = "blocks"
    /\ snap' = [snap EXCEPT !.pc = "transactions",
                            !.transactions = INGEST_STATS.transactions]
    /\ UNCHANGED <<callers, added, INGEST_STATS>>
    /\ UNCHANGED <<proc, pc, filters, hist>>
    /\ UNCHANGED storageVars /\ UNCHANGED samplerVars /\ UNCHANGED ingestVars
    /\ UNCHANGED besideCounters

\* pending_transactions: self.pending_transactions.load(Ordering::Relaxed),
\* and the IngestSnapshot is returned
LoadPendingTransactions ==
    /\ snap.pc = "transactions"
    /\ snap' = [snap EXCEPT !.pc = "returned",
                            !.pending_transactions = INGEST_STATS.pending_transactions]
    /\ UNCHANGED <<callers, added, INGEST_STATS>>
    /\ UNCHANGED <<proc, pc, filters, hist>>
    /\ UNCHANGED storageVars /\ UNCHANGED samplerVars /\ UNCHANGED ingestVars
    /\ UNCHANGED besideCounters

\* the response is sent; the next request may come
SnapshotDone ==
    /\ snap.pc = "returned"
    /\ snap' = NoSnapshot
    /\ UNCHANGED <<callers, added, INGEST_STATS>>
    /\ UNCHANGED <<proc, pc, filters, hist>>
    /\ UNCHANGED storageVars /\ UNCHANGED samplerVars /\ UNCHANGED ingestVars
    /\ UNCHANGED besideCounters

(***************************************************************************)
(* The normalizers on their own (eth.rs): a raw transaction of the chain   *)
(* collaborator is handed to normalize_tx or to normalize_pending_tx.      *)
(***************************************************************************)
\* U256 values of gas and nonce, around the limits of i64 and u128
U256Values == {0, 21000, I64Max - 1, I64Max, I64Max + 1, U128Max, U128Max + 1}

\* the raw transactions: with or without recipient, legacy price and max fee
RawInputs ==
    [hash : {1}, from : {Addr.c}, to : {None, Some(Addr.a)}, value : {42},
     gas : U256Values, gas_price : {None, Some(1000)},
     max_fee_per_gas : {None, Some(2000000000)}, nonce : U256Values]

\* normalize_block: normalize_tx(tx, number, timestamp)
NormalizeConfirmed ==
    /\ normal_out = None
    /\ \E b \in BlockNums :
         normal_out' = Some([by |-> "normalize_tx",
                             tx |-> normalize_tx(raw_tx, b, ChainBlockTimestamp(b))])
    /\ UNCHANGED <<raw_tx>> /\ UNCHANGED besideNormalizers
    /\ UNCHANGED <<proc, pc, filters, INGEST_STATS, hist>>
    /\ UNCHANGED storageVars /\ UNCHANGED samplerVars /\ UNCHANGED ingestVars

\* sample_pending: normalize_pending_tx(tx)
NormalizePending ==
    /\ normal_out = None
    /\ normal_out' = Some([by |-> "normalize_pending_tx",
                           tx |-> normalize_pending_tx(raw_tx)])
    /\ UNCHANGED <<raw_tx>> /\ UNCHANGED besideNormalizers
    /\ UNCHANGED <<proc, pc, filters, INGEST_STATS, hist>>
    /\ UNCHANGED storageVars /\ UNCHANGED samplerVars /\ UNCHANGED ingestVars

(***************************************************************************)
(* insert_block on its own (storage/mod.rs), given any BlockInfo: the      *)
(* chain's block of a number, or one whose hash or timestamp differ.       *)
(***************************************************************************)
NoBlockCall == [st |-> "none", io |-> "ok", block |-> <<>>, pre |-> {}]

\* the result of the statement: ON CONFLICT(block_number) DO NOTHING raises
\* nothing for a stored number, so only the connection can fail it
InsertBlockResult(rows, block, io) == IF io = "ok" THEN "ok" ELSE "err"

AnyBlocks ==
    UNION {[number : {b},
            hash : {HashToLowerHex(ChainBlockHash(b)), HashToLowerHex(ChainBlockHash(b) + 256)},
            timestamp : {ChainBlockTimestamp(b), ChainBlockTimestamp(b) + 1}] :
           b \in BlockNums}

\* insert_block(pool, block): Ok(()), or the connection's error through `?`
InsertBlockAny ==
    /\ proc = "none"
    /\ \E block \in AnyBlocks, io \in {"ok", "err"} :
         /\ blocks' = IF io = "ok" THEN InsertOrIgnoreBlock(blocks, block) ELSE blocks
         /\ block_call' = [st |-> InsertBlockResult(blocks, block, io), io |-> io,
                           block |-> block, pre |-> blocks]
    /\ UNCHANGED <<transactions, txn, call, observed>>
    /\ UNCHANGED <<proc, pc, filters, INGEST_STATS, hist>>
    /\ UNCHANGED samplerVars /\ UNCHANGED ingestVars /\ UNCHANGED besideBlockCall

(***************************************************************************)
(* fetch_recent_blocks on its own (eth.rs): the window's size, the chain's *)
(* head and the collaborator's answer for each block number are given.     *)
(***************************************************************************)
NoFetchCall == [count |-> 0, latest |-> 0, resp |-> [b \in BlockNums |-> "inline"],
               out |-> None]

FetchInputs ==
    [count : 0..(MaxHead + 1), latest : BlockNums, resp : [BlockNums -> Responses],
     out : {None}]

\* eth.fetch_recent_blocks(count).await: Ok(out), or the error through `?`
FetchRecentBlocks ==
    /\ fetch_call.out = None
    /\ fetch_call' = [fetch_call EXCEPT !.out =
            Some(fetch_recent_blocks(fetch_call.count, fetch_call.latest,
                                     fetch_call.resp))]
    /\ UNCHANGED <<proc, pc, filters, INGEST_STATS, hist>>
    /\ UNCHANGED storageVars /\ UNCHANGED samplerVars /\ UNCHANGED ingestVars
    /\ UNCHANGED besideFetchCall

(***************************************************************************)
(* get_gas_stats on its own (storage/mod.rs), over storage states whose    *)
(* rows hold any text in gas_price_wei: the column is TEXT, and            *)
(* insert_transactions stores the string it is given.                      *)
(***************************************************************************)
NoGasCall == [n |-> 0, out |-> None, done |-> FALSE]

Zeros(n) == [i \in 1..n |-> "0"]

\* texts of gas_price_wei, as characters: two numbers, one that starts with a
\* digit and holds a letter, one that starts with a letter, and a number of
\* MaxPriceLen characters and one of a character more
PriceChars ==
    {<<"5">>, <<"2", "0">>, <<"1", "x">>, <<"x", "1">>,
     Zeros(MaxPriceLen - 1) \o <<"7">>, Zeros(MaxPriceLen) \o <<"7">>}
PriceTexts == {Concat(c) : c \in PriceChars}
\* the characters of a stored text
TextChars(text) == CHOOSE c \in PriceChars : Concat(c) = text

IsDigit(ch) == \E i \in 1..Len(DecDigit) : DecDigit[i] = ch
DigitValue(ch) == (CHOOSE i \in 1..Len(DecDigit) : DecDigit[i] = ch) - 1

\* a stored row of hash h, in block bn or pending, with the price text given
GasRowOf(h, bn, price) ==
    [PendingTxOf[h] EXCEPT
        !.block_number = bn,
        !.timestamp = IF IsSome(bn) THEN Some(ChainBlockTimestamp(Unwrap(bn))) ELSE None,
        !.gas_price_wei = price]

\* no row of hash h, or one in a stored block or pending, with or without price
RowChoices(h, numbers) ==
    {None} \cup
    {Some(GasRowOf(h, bn, price)) :
        bn \in {None} \cup {Some(b) : b \in numbers},
        price \in {None} \cup {Some(t) : t \in PriceTexts}}

\* the storage states: some of the chain's blocks, and up to two rows
GasStorageStates ==
    UNION {{[blocks |-> bs,
             transactions |-> {c1[i] : i \in 1..Len(c1)} \cup {c2[i] : i \in 1..Len(c2)}] :
              c1 \in RowChoices(1, {b.number : b \in bs}),
              c2 \in RowChoices(2, {b.number : b \in bs})} :
           bs \in SUBSET BlockUniverse}

\* SELECT block_number FROM blocks ORDER BY block_number DESC LIMIT ?1
LastBlockNumbers(blockrows, n) ==
    {b.number : b \in {x \in blockrows :
        Cardinality({y \in blockrows : y.number > x.number}) < n}}

\* gas_price_wei GLOB '[0-9]*': a digit, then anything
GlobDigitThenAny(chars) == chars # <<>> /\ IsDigit(chars[1])

\* the WHERE clause
WhereClause(row, blockrows, n) ==
    /\ IsSome(row.gas_price_wei)
    /\ GlobDigitThenAny(TextChars(Unwrap(row.gas_price_wei)))
    /\ Len(TextChars(Unwrap(row.gas_price_wei))) <= MaxPriceLen
    /\ IsSome(row.block_number)
    /\ Unwrap(row.block_number) \in LastBlockNumbers(blockrows, n)

RECURSIVE DigitPrefixValue(_, _, _)
\* the integer the leading digits of chars spell, from position i on
DigitPrefixValue(chars, i, acc) ==
    IF i > Len(chars) \/ ~IsDigit(chars[i]) THEN acc
    ELSE DigitPrefixValue(chars, i + 1, (acc * 10) + DigitValue(chars[i]))
\* CAST(gas_price_wei AS INTEGER): SQLite converts the longest numeric prefix
CastAsInteger(text) == DigitPrefixValue(TextChars(text), 1, 0)

RECURSIVE SumOfPrices(_)
SumOfPrices(rows) ==
    IF rows = {} THEN 0
    ELSE LET r == CHOOSE x \in rows : TRUE
         IN  CastAsInteger(Unwrap(r.gas_price_wei)) + SumOfPrices(rows \ {r})

\* MIN, MAX and AVG over the rows selected; AVG is a double, kept here as the
\* sum over the count: the sums of the model are far below 2^53, where a double
\* holds them exactly.  Over no row the three are NULL, and the result is None.
Aggregates(rows) ==
    IF rows = {} THEN None
    ELSE LET prices == {CastAsInteger(Unwrap(r.gas_price_wei)) : r \in rows}
         IN  Some([min |-> CHOOSE v \in prices : \A w \in prices : v <= w,
                   max |-> CHOOSE v \in prices : \A w \in prices : v >= w,
                   avg |-> [sum |-> SumOfPrices(rows), count |-> Cardinality(rows)]])

get_gas_stats(txrows, blockrows, last_n_blocks) ==
    Aggregates({row \in txrows : WhereClause(row, blockrows, last_n_blocks)})

\* storage::get_gas_stats(&pool, blocks)
GetGasStats ==
    /\ ~gas_call.done
    /\ \E n \in 0..(MaxHead + 2) :
         gas_call' = [n |-> n, out |-> get_gas_stats(transactions, blocks, n),
                      done |-> TRUE]
    /\ UNCHANGED <<proc, pc, filters, INGEST_STATS, hist>>
    /\ UNCHANGED storageVars /\ UNCHANGED samplerVars /\ UNCHANGED ingestVars
    /\ UNCHANGED besideGasCall

(***************************************************************************)
(* get_recent_transactions and get_top_senders on their own                *)
(* (storage/mod.rs), called as main and the HTTP handlers call them: with  *)
(* a u64 limit cast to i64.                                                *)
(***************************************************************************)
NoQueryCall == [fn |-> "none", limit |-> 0, out |-> <<>>, done |-> FALSE]

\* u64::MAX, on the scale of I64Max
U64Max == (2 * I64Max) + 1
\* `limit as i64`: the values above i64::MAX wrap to the negative ones
U64AsI64(v) == IF v > I64Max THEN v - (2 * (I64Max + 1)) ELSE v

\* the limits the callers pass
QueryLimits == (0..MaxLimit) \cup {U64Max}

\* LIMIT ?1 on the ordered rows: the first rows, and all of them under a
\* negative limit
SqlLimit(ordered, limit) ==
    IF limit < 0 \/ limit >= Len(ordered) THEN ordered ELSE SubSeq(ordered, 1, limit)

\* COALESCE(timestamp, 0)
CoalesceTimestamp(row) == IF IsSome(row.timestamp) THEN Unwrap(row.timestamp) ELSE 0

\* ORDER BY COALESCE(timestamp, 0) DESC: the orders of the rows the storage
\* may produce; rows of equal key come in any order
OrderByTimestampDesc(rows) ==
    {s \in [1..Cardinality(rows) -> rows] :
        /\ \A i, j \in DOMAIN s : i # j => s[i] # s[j]
        /\ \A i, j \in DOMAIN s :
              i < j => CoalesceTimestamp(s[i]) >= CoalesceTimestamp(s[j])}

\* the timestamps of stored confirmed rows: a block's timestamp is the node's
\* U256 cast `as_u64() as i64`, which is the chain's time, 0 for a block of the
\* epoch, or negative from 2^63 on
RowTimestamps == {0 - 1, 0, ChainBlockTimestamp(1)}

\* a stored row of hash h: pending, or confirmed in block 1 at a timestamp
RecentRowOf(h, stamp) ==
    [PendingTxOf[h] EXCEPT
        !.block_number = IF IsSome(stamp) THEN Some(1) ELSE None,
        !.timestamp = stamp]

\* the storage states: the chain's blocks, and for each hash no row, a pending
\* row or a confirmed one
RecentStorageStates ==
    {[blocks |-> BlockUniverse,
      transactions |-> {RecentRowOf(h, f[h][1]) : h \in {x \in PoolHashes : f[x] # <<>>}}] :
        f \in [PoolHashes -> {<<>>, <<None>>} \cup {<<Some(t)>> : t \in RowTimestamps}]}

\* storage::get_recent_transactions(&pool, limit as i64)
GetRecentTransactions ==
    /\ ~query_call.done
    /\ \E limit \in QueryLimits, ordered \in OrderByTimestampDesc(transactions) :
         query_call' = [fn |-> "get_recent_transactions", limit |-> limit,
                        out |-> SqlLimit(ordered, U64AsI64(limit)), done |-> TRUE]
    /\ UNCHANGED <<proc, pc, filters, INGEST_STATS, hist>>
    /\ UNCHANGED storageVars /\ UNCHANGED samplerVars /\ UNCHANGED ingestVars
    /\ UNCHANGED besideQueryCall

\* COUNT(*) of the group of an address
CountStar(rows, address) == Cardinality({r \in rows : r.from = address})

\* SELECT from_addr as address, COUNT(*) as count ... GROUP BY from_addr
GroupByFromAddr(rows) ==
    {[address |-> a, count |-> CountStar(rows, a)] : a \in {r.from : r \in rows}}

\* ORDER BY count ASC
CountAscending(first, second) == first.count <= second.count
\* ORDER BY count DESC: first may come before second
CountDescending(first, second) == first.count >= second.count

\* the orders of the groups the storage may produce; groups of equal count
\* come in any order
OrderByCountDesc(groups) ==
    {s \in [1..Cardinality(groups) -> groups] :
        /\ \A i, j \in DOMAIN s : i # j => s[i] # s[j]
        /\ \A i, j \in DOMAIN s : i < j => CountDescending(s[i], s[j])}

Senders == {Addr.a, Addr.c, Addr.d}

\* a stored row of the n-th hash, sent from the address given
SenderRowOf(n, from) ==
    [PendingTxOf[1] EXCEPT !.hash = HashToLowerHex(n), !.from = address_to_lower_hex(from)]

\* the storage states: for each of MaxRows hashes no row, or one of a sender
SenderStorageStates ==
    {[blocks |-> {},
      transactions |-> {SenderRowOf(n, f[n][1]) : n \in {x \in 1..MaxRows : f[x] # <<>>}}] :
        f \in [1..MaxRows -> {<<>>} \cup {<<a>> : a \in Senders}]}

\* storage::get_top_senders(&pool, limit as i64)
GetTopSenders ==
    /\ ~query_call.done
    /\ \E limit \in QueryLimits, ordered \in OrderByCountDesc(GroupByFromAddr(transactions)) :
         query_call' = [fn |-> "get_top_senders", limit |-> limit,
                        out |-> SqlLimit(ordered, U64AsI64(limit)), done |-> TRUE]
    /\ UNCHANGED <<proc, pc, filters, INGEST_STATS, hist>>
    /\ UNCHANGED storageVars /\ UNCHANGED samplerVars /\ UNCHANGED ingestVars
    /\ UNCHANGED besideQueryCall

(***************************************************************************)
(* The specification.                                                      *)
(***************************************************************************)
ProgramInit ==
    /\ txn = None
    /\ call = NoCall
    /\ observed = None
    /\ proc = "none"
    /\ pc = "idle"
    /\ stats = DefaultStats
    /\ buffer = <<>>
    /\ max = 0
    /\ filters = None
    /\ deadline = 0
    /\ timer = 0
    /\ now = 0
    /\ hash = 0
    /\ INGEST_STATS = NewIngestStats
    /\ todo = <<>>
    /\ total = NoTotal
    /\ hist = NoHist
    /\ callers = [c \in Callers |-> IdleCaller]
    /\ snap = NoSnapshot
    /\ added = NothingAdded
    /\ normal_out = None
    /\ block_call = NoBlockCall
    /\ gas_call = NoGasCall
    /\ query_call = NoQueryCall

\* an empty database
EmptyStorage == blocks = {} /\ transactions = {}

\* the program at its start on an empty database; no transaction is before a
\* normalizer but the fixture's first
Init == ProgramInit /\ EmptyStorage /\ raw_tx = RawTx(1) /\ fetch_call = NoFetchCall

\* the normalizers are given any of the raw transactions
NormalizeInit ==
    ProgramInit /\ EmptyStorage /\ raw_tx \in RawInputs /\ fetch_call = NoFetchCall

\* fetch_recent_blocks is given any window, head and answers
FetchInit ==
    ProgramInit /\ EmptyStorage /\ raw_tx = RawTx(1) /\ fetch_call \in FetchInputs

\* get_gas_stats is given any of the storage states
GasInit ==
    /\ ProgramInit
    /\ \E st \in GasStorageStates : blocks = st.blocks /\ transactions = st.transactions
    /\ raw_tx = RawTx(1)
    /\ fetch_call = NoFetchCall

\* get_recent_transactions is given any of its storage states
RecentInit ==
    /\ ProgramInit
    /\ \E st \in RecentStorageStates :
         blocks = st.blocks /\ transactions = st.transactions
    /\ raw_tx = RawTx(1)
    /\ fetch_call = NoFetchCall

\* get_top_senders is given any of its storage states
SendersInit ==
    /\ ProgramInit
    /\ \E st \in SenderStorageStates :
         blocks = st.blocks /\ transactions = st.transactions
    /\ raw_tx = RawTx(1)
    /\ fetch_call = NoFetchCall

Next ==
    \/ PoolBegin
    \/ ExecuteRow
    \/ Commit
    \/ ReadDuringWrite
    \/ LibInsertBlock
    \/ LibInsertTransactions
    \/ LibReturn
    \/ StartSampleUnfiltered
    \/ LoopHead
    \/ WaitReceive
    \/ WaitStreamEnd
    \/ Fetch
    \/ Drain
    \/ FinalReturn
    \/ SampleExit
    \/ StartIngest
    \/ IngestBlock
    \/ IngestTxsReturn
    \/ IngestFinish
    \/ IngestExit

\* every command on one database, one process after the other, with the readers
\* of a serving process beside them; the sampling sessions are the shortest ones,
\* which neither reach the threshold nor meet their deadline
Spec == Init /\ [][Next]_vars

SamplerNext ==
    \/ PoolBegin
    \/ ExecuteRow
    \/ Commit
    \/ ReadDuringWrite
    \/ StartSample
    \/ Tick
    \/ LoopHead
    \/ WaitReceive
    \/ WaitStreamEnd
    \/ WaitTimeout
    \/ Fetch
    \/ FlushReturn
    \/ Drain
    \/ FinalReturn
    \/ SampleExit

\* sampling sessions in every configuration, one after the other on one database
SamplerSpec == Init /\ [][SamplerNext]_vars

\* one sampling session
SessionNext ==
    \/ PoolBegin
    \/ ExecuteRow
    \/ Commit
    \/ ReadDuringWrite
    \/ StartSample
    \/ Tick
    \/ LoopHead
    \/ WaitReceive
    \/ WaitStreamEnd
    \/ WaitTimeout
    \/ Fetch
    \/ FlushReturn
    \/ Drain
    \/ FinalReturn

\* what the session does by itself once it can: the steps of its own code, the
\* timeout's expiry and the returns of the calls it awaits
SessionStep ==
    \/ PoolBegin
    \/ ExecuteRow
    \/ Commit
    \/ LoopHead
    \/ WaitTimeout
    \/ Fetch
    \/ FlushReturn
    \/ Drain
    \/ FinalReturn

\* one session under a clock that advances and a runtime that runs the task; the
\* stream owes nothing: it may never deliver a hash and never end
LiveSpec == Init /\ [][SessionNext]_vars /\ WF_vars(Tick) /\ WF_vars(SessionStep)

WriterNext ==
    \/ PoolBegin
    \/ ExecuteRow
    \/ Commit
    \/ StartSampleUntimed
    \/ LoopHead
    \/ WaitReceive
    \/ WaitStreamEnd
    \/ Fetch
    \/ FlushReturn
    \/ Drain
    \/ FinalReturn
    \/ SampleExit
    \/ StartIngest
    \/ IngestBlock
    \/ IngestTxsReturn
    \/ IngestFinish

\* the two commands that write, on one database: sampling sessions in every
\* configuration, one after the other, and then an ingest-once run
WriterSpec == Init /\ [][WriterNext]_vars

CounterNext ==
    \/ CallIncrement
    \/ FetchAdd
    \/ SnapshotCall
    \/ LoadBlocks
    \/ LoadTransactions
    \/ LoadPendingTransactions
    \/ SnapshotDone

\* the counters of one process under concurrent callers and snapshot readers
CounterSpec == Init /\ [][CounterNext]_vars

NormalizeNext ==
    \/ NormalizeConfirmed
    \/ NormalizePending

\* each raw transaction through each normalizer
NormalizeSpec == NormalizeInit /\ [][NormalizeNext]_vars

\* calls of insert_block, one after the other on one database
BlockSpec == Init /\ [][InsertBlockAny]_vars

\* one call of fetch_recent_blocks for each window and each collaborator
FetchSpec == FetchInit /\ [][FetchRecentBlocks]_vars

\* one call of get_gas_stats on each storage state
GasSpec == GasInit /\ [][GetGasStats]_vars

\* one call of get_recent_transactions on each storage state
RecentSpec == RecentInit /\ [][GetRecentTransactions]_vars

\* one call of get_top_senders on each storage state
SendersSpec == SendersInit /\ [][GetTopSenders]_vars

(***************************************************************************)
(* Properties.                                                             *)
(***************************************************************************)
BatchHashes(txs) == {txs[i].hash : i \in 1..Len(txs)}
InCall == call.st # "none"
AtEnd == proc = "sample" /\ pc = "done"

\* C1: re-inserting a NormalizedTx whose hash is stored is a silent no-op.  In
\* every insert_transactions call, whoever makes it: every row stored before the
\* call stays stored with every field unchanged (also when the batch holds a
\* transaction of the same hash with other fields), the hash stays a key, a
\* successful call adds exactly one row per hash of the batch that was not
\* stored, and a call fails on a constraint only through a row whose hash was not
\* stored: a batch of stored hashes fails on an I/O error alone and changes nothing.
C1_ReinsertIsNoOp ==
    InCall =>
        /\ call.pre \subseteq transactions
        /\ Cardinality(StoredHashes(transactions)) = Cardinality(transactions)
        /\ call.st = "ok" =>
              Cardinality(transactions) =
                  Cardinality(call.pre)
                  + Cardinality(BatchHashes(call.txs) \ StoredHashes(call.pre))
        /\ (call.st = "err" /\ call.why = "fk") =>
              \E i \in 1..Len(call.txs) :
                  call.txs[i].hash \notin StoredHashes(call.pre)
        /\ BatchHashes(call.txs) \subseteq StoredHashes(call.pre) =>
              transactions = call.pre

\* a batch of one stored hash, with other fields than the stored row's, has succeeded
C1_Witness ==
    /\ call.st = "ok"
    /\ Len(call.txs) = 1
    /\ call.txs[1].hash \in StoredHashes(call.pre)
    /\ call.txs[1] \notin call.pre
    /\ transactions = call.pre

\* C2: every stored transaction row with a block number has its block row stored,
\* and so has every row staged in an open write transaction.
C2_BlockBeforeTransactions ==
    \A r \in transactions \cup (IF IsSome(txn) THEN Unwrap(txn) ELSE {}) :
        IsSome(r.block_number) => Unwrap(r.block_number) \in StoredBlockNumbers

\* an ingest-once run has stored a confirmed row, after its block, in a database
\* that holds a session's pending row
C2_Witness ==
    /\ proc = "ingest"
    /\ call.st = "ok"
    /\ \E r \in transactions \ call.pre : IsSome(r.block_number)
    /\ \E r \in transactions : ~IsSome(r.block_number)

\* C3: insert_transactions is all-or-nothing.  Until the commit the committed
\* rows are those of before the call; a call that has failed has left them so,
\* at whichever row it failed; a call that has succeeded has stored every hash of
\* its batch; and a reader that ran between the call's BEGIN and its return saw
\* the rows of before the call, or those with the whole batch.
C3_AllOrNothing ==
    InCall =>
        /\ call.st \in {"begin", "exec", "err"} => transactions = call.pre
        /\ call.st = "ok" => BatchHashes(call.txs) \subseteq StoredHashes(transactions)
        /\ IsSome(observed) =>
              \/ Unwrap(observed) = call.pre
              \/ /\ call.pre \subseteq Unwrap(observed)
                 /\ BatchHashes(call.txs) \subseteq StoredHashes(Unwrap(observed))

\* the call has failed at its second row, after a new first row, and a reader has
\* run meanwhile
C3_Witness ==
    /\ call.st = "err"
    /\ Len(call.txs) = 2
    /\ call.i = 2
    /\ call.txs[1].hash \notin StoredHashes(call.pre)
    /\ call.txs[2].hash # call.txs[1].hash
    /\ IsSome(observed)

\* the addresses of the filter in force
FilterSet == Unwrap(filters)
\* from is in F, or to is present and in F, on the raw transaction's addresses
PassesFilter(raw, F) ==
    \/ address_to_lower_hex(raw.from) \in F
    \/ IsSome(raw.to) /\ address_to_lower_hex(Unwrap(raw.to)) \in F
\* the same on a stored record
RecordPasses(tx, F) == tx.from \in F \/ (IsSome(tx.to) /\ Unwrap(tx.to) \in F)

\* C4: a session with max count N whose deadline lies beyond the run never has
\* received more than N hashes; unless its stream ended, it is done with received
\* exactly N; and when it is done every buffered transaction has been passed to
\* insert_transactions, also a last batch below the threshold, whose rows are
\* stored when that flush succeeded.
C4_ExactlyMaxThenFlushed ==
    (proc = "sample" /\ deadline = Unlimited) =>
        /\ stats.received <= max
        /\ (pc = "done" /\ hist.exit # "stream") =>
              /\ stats.received = max
              /\ hist.exit = "max"
        /\ pc = "done" =>
              /\ hist.submitted = hist.pushed
              /\ hist.submitted = stats.inserted
                 => BatchHashes(buffer) \subseteq StoredHashes(transactions)

\* done after MaxMax hashes, a threshold flush and a final flush of a buffer
\* below the threshold
C4_Witness ==
    /\ AtEnd
    /\ deadline = Unlimited
    /\ max = MaxMax
    /\ stats.received = MaxMax
    /\ buffer # <<>>
    /\ Len(buffer) < flush_every
    /\ stats.inserted = flush_every + Len(buffer)

\* C5: a session whose deadline the clock reaches is eventually done, whatever
\* its stream does; the timeout it waits under never outlasts its deadline; and
\* at the head of the loop, once the deadline has elapsed, it leaves the loop.
C5_LeavesLoopStep ==
    (proc = "sample" /\ pc = "loop" /\ now >= deadline /\ pc' # pc) => pc' = "drain"
C5_WaitBounded ==
    (proc = "sample" /\ pc = "wait") => (timer <= deadline /\ timer > 0)
C5_SessionTerminates ==
    /\ [][C5_LeavesLoopStep]_vars
    /\ []C5_WaitBounded
    /\ (proc = "sample" /\ deadline <= MaxTime) ~> AtEnd

\* done by the timeout, on a stream that delivered nothing
C5_Witness ==
    /\ AtEnd
    /\ hist.exit = "timeout"
    /\ stats.received = 0
    /\ now = deadline
    /\ deadline = MaxTime

\* C6: a flush that fails, at the threshold or at the end, adds 1 to
\* insert_errors and nothing to inserted, stores nothing, and the session goes
\* on: to the next iteration or the final flush with an empty buffer, or to Done
\* with its statistics.  No transaction is passed to insert_transactions twice:
\* the transactions passed so far and those buffered are the transactions that
\* were buffered.
C6_FailedFlushStep ==
    (proc = "sample" /\ pc \in {"flush", "final"} /\ call.st = "err"
        /\ pc' \notin {"flush", "final"}) =>
        /\ stats'.insert_errors = stats.insert_errors + 1
        /\ stats'.inserted = stats.inserted
        /\ INGEST_STATS' = INGEST_STATS
        /\ transactions' = transactions
        /\ call' = NoCall
        /\ pc = "flush" => (buffer' = <<>> /\ pc' \in {"loop", "drain"})
        /\ pc = "final" => pc' = "done"
C6_NothingResubmitted ==
    proc = "sample" =>
        hist.submitted + (IF pc = "done" THEN 0 ELSE Len(buffer)) = hist.pushed
C6_FailedFlushIsCountedAndDropped ==
    [][C6_FailedFlushStep]_vars /\ []C6_NothingResubmitted

\* done after a threshold flush and a final flush that both failed
C6_Witness ==
    /\ AtEnd
    /\ stats.insert_errors = 2
    /\ stats.inserted = 0
    /\ hist.pushed = flush_every + 1
    /\ hist.rows0 = Cardinality(transactions)

\* C7: throughout a session, and so at its end, inserted and the
\* pending-transactions counter (zero when the process started) both equal the
\* sum of the sizes of the batches whose flush succeeded.
C7_CountsSuccessfulBatches ==
    proc = "sample" =>
        /\ stats.inserted = hist.ok_sizes
        /\ INGEST_STATS.pending_transactions = hist.ok_sizes

\* done after a batch that was stored and a batch that failed, with more
\* transactions fetched than counted
C7_Witness ==
    /\ AtEnd
    /\ hist.ok_sizes > 0
    /\ hist.submitted > hist.ok_sizes
    /\ stats.fetched > stats.inserted
    /\ stats.insert_errors = 1

\* C8, as claimed: at the end of a session, inserted and the pending-transactions
\* counter equal the number of rows the session added to table transactions.
C8_CountsRowsAdded ==
    AtEnd =>
        /\ stats.inserted = Cardinality(transactions) - hist.rows0
        /\ INGEST_STATS.pending_transactions = Cardinality(transactions) - hist.rows0

\* C9: under a filter F, a fetched transaction is appended to the buffer exactly
\* when its from address is in F or its to address is present and in F; and
\* every transaction in the buffer or in a batch given to insert_transactions
\* satisfies that.
C9_FetchStep ==
    (proc = "sample" /\ pc = "fetch" /\ IsSome(filters)
        /\ stats'.fetched = stats.fetched + 1) =>
        IF PassesFilter(RawTx(hash), FilterSet)
        THEN buffer' = Append(buffer, normalize_pending_tx(RawTx(hash)))
        ELSE buffer' = buffer
C9_OnlyPassingBuffered ==
    (proc = "sample" /\ IsSome(filters)) =>
        /\ \A i \in 1..Len(buffer) : RecordPasses(buffer[i], FilterSet)
        /\ \A i \in 1..Len(call.txs) : RecordPasses(call.txs[i], FilterSet)
C9_FilterIsOr ==
    [][C9_FetchStep]_vars /\ []C9_OnlyPassingBuffered

\* under the filter {0xddd..}: a transaction kept for its to address alone, and
\* one dropped whose to is absent and whose from is not in the filter
C9_Witness ==
    /\ proc = "sample"
    /\ pc = "loop"
    /\ IsSome(filters)
    /\ FilterSet = {address_to_lower_hex(Addr.d)}
    /\ buffer = <<PendingTxOf[1]>>
    /\ hash = 3
    /\ stats.fetched = 2

\* the values of FILTER_ADDRESSES that are unset or hold no address
NoAddressEnvs ==
    {env \in FilterEnvs : env = None \/ parse_filter_addresses(Unwrap(env)) = {}}
AllIncrementsCompleted == \A c \in Callers : callers[c].pc = "idle"

\* C11: whatever the interleaving of the callers' increments, once every
\* increment has completed each of the three counters equals the sum of the
\* amounts added to it.
C11_NoLostUpdate ==
    AllIncrementsCompleted =>
        \A counter \in CounterNames : INGEST_STATS[counter] = added[counter]

\* two increments have completed, one of which landed on a counter that another
\* caller had changed since it entered
C11_Witness ==
    /\ AllIncrementsCompleted
    /\ added.raced
    /\ \E counter \in CounterNames : INGEST_STATS[counter] > MaxAmount

\* C12: the triple snapshot() returns is one the three counters held together
\* at some instant between the call and the return.
C12_SnapshotIsPointInTime ==
    snap.pc = "returned" =>
        [blocks |-> snap.blocks, transactions |-> snap.transactions,
         pending_transactions |-> snap.pending_transactions] \in snap.held

\* C13: the normalizers never populate both pricing fields: with a max fee in
\* the raw transaction max_fee_per_gas_wei is set and gas_price_wei is absent,
\* also when a legacy gas price is there as well; otherwise gas_price_wei is
\* set from the legacy field if present; with neither, both are absent.
C13_PricingFieldsExclusive ==
    IsSome(normal_out) =>
        LET tx == Unwrap(normal_out).tx
        IN  IF IsSome(raw_tx.max_fee_per_gas)
            THEN /\ tx.max_fee_per_gas_wei = Some(U256ToString(Unwrap(raw_tx.max_fee_per_gas)))
                 /\ tx.gas_price_wei = None
            ELSE /\ tx.max_fee_per_gas_wei = None
                 /\ tx.gas_price_wei = MapToString(raw_tx.gas_price)

\* C15: the normalized gas and nonce equal the chain's value when it is at most
\* i64::MAX and are exactly i64::MAX otherwise; the conversion always yields a
\* value, never a negative one.
C15_GasAndNonceSaturate ==
    IsSome(normal_out) =>
        LET tx == Unwrap(normal_out).tx
        IN  /\ tx.gas = (IF raw_tx.gas <= I64Max THEN raw_tx.gas ELSE I64Max)
            /\ tx.nonce = (IF raw_tx.nonce <= I64Max THEN raw_tx.nonce ELSE I64Max)
            /\ tx.gas \in 0..I64Max
            /\ tx.nonce \in 0..I64Max

\* gas beyond u128 and a nonce one above i64::MAX, both normalized to i64::MAX
C15_Witness ==
    /\ IsSome(normal_out)
    /\ raw_tx.gas > U128Max
    /\ raw_tx.nonce = I64Max + 1
    /\ Unwrap(normal_out).tx.gas = I64Max
    /\ Unwrap(normal_out).tx.nonce = I64Max

\* C14: every record of the confirmed normalizer has block_number and
\* timestamp, every record of the pending normalizer has neither, and every
\* stored row has both or neither.
C14_BlockFieldsBothOrNeither ==
    /\ \A i \in 1..Len(todo) : \A j \in 1..Len(todo[i][2]) :
          IsSome(todo[i][2][j].block_number) /\ IsSome(todo[i][2][j].timestamp)
    /\ \A i \in 1..Len(buffer) :
          buffer[i].block_number = None /\ buffer[i].timestamp = None
    /\ \A row \in transactions : IsSome(row.block_number) <=> IsSome(row.timestamp)

\* a sampling session holds a pending record while a confirmed row and a
\* pending row are stored
C14_Witness ==
    /\ proc = "sample"
    /\ buffer # <<>>
    /\ \E row \in transactions : IsSome(row.block_number) /\ IsSome(row.timestamp)
    /\ \E row \in transactions : row.block_number = None /\ row.timestamp = None

\* C16: insert_block with a block number that is already stored does not fail
\* for it, and leaves the stored row, hash and timestamp, and the number of
\* block rows as they were, also when the hash or the timestamp given differ.
C16_ReinsertBlockIsNoOp ==
    (block_call.st # "none"
        /\ block_call.block.number \in {b.number : b \in block_call.pre}) =>
        /\ (block_call.io = "ok" => block_call.st = "ok")
        /\ blocks = block_call.pre
        /\ Cardinality(blocks) = Cardinality(block_call.pre)
        /\ \E b \in blocks : b.number = block_call.block.number /\ b \in block_call.pre

\* a stored number was given again with another hash and timestamp, with success
C16_Witness ==
    /\ block_call.st = "ok"
    /\ \E b \in block_call.pre :
         /\ b.number = block_call.block.number
         /\ b.hash # block_call.block.hash
         /\ b.timestamp # block_call.block.timestamp
    /\ blocks = block_call.pre

\* the block numbers of the window [latest - (count - 1), latest]
FetchWindow ==
    IF fetch_call.count = 0 THEN {}
    ELSE {b \in BlockNums :
            /\ b <= fetch_call.latest
            /\ b + fetch_call.count > fetch_call.latest}

\* C17: a block the collaborator returns nothing for, or returns an error for,
\* is skipped: the call succeeds and returns the other blocks of the window.
C17_UnresolvedBlockSkipped ==
    IsSome(fetch_call.out) =>
        LET res == Unwrap(fetch_call.out)
        IN  /\ res.ok
            /\ {res.out[i][1].number : i \in 1..Len(res.out)} =
                 {b \in FetchWindow : fetch_call.resp[b] \in {"inline", "fallback"}}

\* C18: when an ingest-once run ends, with Ok or with a storage error after some
\* blocks were written, the blocks counter has grown by the number of block
\* rows the run stored.
C18_BlocksCounterCountsStored ==
    (proc = "ingest" /\ pc \in {"ingest_done", "ingest_failed"}) =>
        INGEST_STATS.blocks = Cardinality(blocks) - hist.blocks0

\* a text made of decimal digits only
PurelyNumeric(chars) == chars # <<>> /\ \A i \in 1..Len(chars) : IsDigit(chars[i])

\* the row is in one of the n highest stored block numbers and its price is
\* present, purely numeric and of at most 18 characters
QualifiesFor(row, n) ==
    /\ IsSome(row.block_number)
    /\ \E b \in blocks : b.number = Unwrap(row.block_number)
    /\ Cardinality({b \in blocks : b.number > Unwrap(row.block_number)}) < n
    /\ IsSome(row.gas_price_wei)
    /\ PurelyNumeric(TextChars(Unwrap(row.gas_price_wei)))
    /\ Len(TextChars(Unwrap(row.gas_price_wei))) <= 18

QualifyingRows == {row \in transactions : QualifiesFor(row, gas_call.n)}

\* C19: when at least one row qualifies, get_gas_stats returns min, max and avg
\* with min <= avg <= max, computed over exactly the qualifying rows; when no
\* row qualifies it returns no data.
C19_MinAvgMaxOrNoData ==
    gas_call.done =>
        IF QualifyingRows = {} THEN gas_call.out = None
        ELSE /\ IsSome(gas_call.out)
             /\ LET g == Unwrap(gas_call.out)
                IN  /\ g.avg.count = Cardinality(QualifyingRows)
                    /\ g.min * g.avg.count <= g.avg.sum
                    /\ g.avg.sum <= g.max * g.avg.count
                    /\ \E row \in QualifyingRows :
                          g.min = CastAsInteger(Unwrap(row.gas_price_wei))
                    /\ \E row \in QualifyingRows :
                          g.max = CastAsInteger(Unwrap(row.gas_price_wei))

\* C20: a row contributes to get_gas_stats exactly when it qualifies: the
\* result is the one over the qualifying rows alone, and a price that starts
\* with a digit and holds another character contributes nothing.
C20_ContributesIffQualifies ==
    gas_call.done => gas_call.out = Aggregates(QualifyingRows)

QueryReturned(fn) == query_call.done /\ query_call.fn = fn
IsPending(row) == row.timestamp = None

\* C21: get_recent_transactions(limit) returns at most limit rows, all of them
\* stored and none twice, in non-increasing order of the timestamp with an
\* absent one counted as 0; a pending row comes after every confirmed row of
\* the result, and is returned only if every stored confirmed row is.
C21_RecentOrderedPendingLast ==
    QueryReturned("get_recent_transactions") =>
        LET out == query_call.out
        IN  /\ Len(out) <= query_call.limit
            /\ \A i \in DOMAIN out : out[i] \in transactions
            /\ \A i, j \in DOMAIN out : i # j => out[i] # out[j]
            /\ \A i, j \in DOMAIN out :
                  i < j => CoalesceTimestamp(out[i]) >= CoalesceTimestamp(out[j])
            /\ \A i, j \in DOMAIN out :
                  (IsPending(out[i]) /\ ~IsPending(out[j])) => j < i
            /\ (\E i \in DOMAIN out : IsPending(out[i])) =>
                  \A row \in transactions :
                      ~IsPending(row) => \E j \in DOMAIN out : out[j] = row

\* the number of stored transactions from an address
StoredFrom(address) == Cardinality({row \in transactions : row.from = address})

\* C22: get_top_senders(limit) returns at most limit pairs, with distinct
\* addresses, each with the exact number of stored transactions from that
\* address, in non-increasing order of count; and no sender left out has a
\* strictly larger count than one returned.
C22_TopSendersExactAndOrdered ==
    QueryReturned("get_top_senders") =>
        LET out == query_call.out
        IN  /\ Len(out) <= query_call.limit
            /\ \A i, j \in DOMAIN out : i # j => out[i].address # out[j].address
            /\ \A i \in DOMAIN out :
                  out[i].count >= 1 /\ out[i].count = StoredFrom(out[i].address)
            /\ \A i, j \in DOMAIN out : i < j => out[i].count >= out[j].count
            /\ \A row \in transactions :
                  (\A i \in DOMAIN out : out[i].address # row.from) =>
                      \A i \in DOMAIN out : StoredFrom(row.from) <= out[i].count

\* {A: 3, B: 1, C: 1} with limit 2: A with 3 first, then one of the two others
C22_Witness ==
    /\ QueryReturned("get_top_senders")
    /\ Cardinality(transactions) = 5
    /\ query_call.limit = 2
    /\ Len(query_call.out) = 2
    /\ query_call.out[1].count = 3
    /\ query_call.out[2].count = 1
    /\ \E row \in transactions :
         /\ StoredFrom(row.from) = 1
         /\ \A i \in DOMAIN query_call.out : query_call.out[i].address # row.from

\* the stored row of a hash
StoredRow(h) == CHOOSE row \in transactions : row.hash = h

\* C23: the rows a sampling session stores have no block linkage; and once an
\* ingest-once run has stored a block's transactions, the stored row of each of
\* their hashes carries that block's number and timestamp, also when the hash
\* had been stored as pending before.
C23_ReingestLinksPendingRow ==
    /\ (proc = "sample" /\ call.st = "ok") =>
          \A row \in transactions \ call.pre :
              row.block_number = None /\ row.timestamp = None
    /\ (proc = "ingest" /\ call.st = "ok") =>
          \A i \in 1..Len(call.txs) :
              /\ StoredRow(call.txs[i].hash).block_number = call.txs[i].block_number
              /\ StoredRow(call.txs[i].hash).timestamp = call.txs[i].timestamp

\* C24: a buffer that reaches the threshold is passed to insert_transactions
\* at once, whole, whatever time and count are left, and is empty when the
\* iteration ends, whatever the write's outcome: the buffer never holds more
\* than the threshold, and holds fewer whenever the session is at the head of
\* its loop, waits for a hash, looks one up or has left the loop.
C24_ThresholdFlushClears ==
    proc = "sample" =>
        /\ Len(buffer) <= flush_every
        /\ pc \in {"loop", "wait", "fetch", "drain", "final", "done"} =>
              Len(buffer) < flush_every
        /\ pc = "flush" =>
              /\ Len(buffer) = flush_every
              /\ InCall
              /\ call.txs = buffer

\* a threshold flush made with the last hash of the count has failed, and the
\* session has left the loop with an empty buffer
C24_Witness ==
    /\ proc = "sample"
    /\ pc = "drain"
    /\ stats.received = max
    /\ stats.insert_errors = 1
    /\ hist.submitted = flush_every
    /\ hist.pushed = flush_every
    /\ buffer = <<>>

ExitPaths == {"deadline", "timeout", "max", "stream"}

\* C25: whichever way the session leaves its loop (deadline elapsed, wait timed
\* out, max count reached, stream ended), the transactions still buffered are
\* passed to insert_transactions, whole and once, before the session returns;
\* from the moment it has left the loop it receives and looks up no hash and
\* buffers nothing.
C25_AfterLoopStep ==
    (proc = "sample" /\ pc \in {"drain", "final"}) =>
        /\ stats'.received = stats.received
        /\ stats'.fetched = stats.fetched
        /\ buffer' = buffer
        /\ hash' = hash
        /\ pc' \in {"drain", "final", "done"}
        /\ (pc = "drain" /\ buffer # <<>> /\ pc' # pc) =>
              (pc' = "final" /\ call'.st = "begin" /\ call'.txs = buffer)
        /\ (pc = "final" /\ pc' # pc) =>
              (pc' = "done" /\ hist'.submitted = hist.submitted + Len(buffer))
C25_AllPassedAtEnd ==
    proc = "sample" =>
        /\ pc \in {"drain", "final", "done"} => hist.exit \in ExitPaths
        /\ pc \in {"drain", "final"} => hist.submitted + Len(buffer) = hist.pushed
        /\ pc = "final" => (InCall /\ call.txs = buffer /\ buffer # <<>>)
        /\ pc = "done" => (hist.submitted = hist.pushed /\ ~InCall)
C25_FinalDrainOnEveryPath ==
    [][C25_AfterLoopStep]_vars /\ []C25_AllPassedAtEnd

\* the deadline has elapsed with one transaction buffered and hashes left to
\* receive, and the session is done with that transaction passed and stored
C25_Witness ==
    /\ AtEnd
    /\ hist.exit = "deadline"
    /\ now >= deadline
    /\ stats.received < max
    /\ Len(buffer) = 1
    /\ hist.pushed = 1
    /\ hist.submitted = 1
    /\ stats.inserted = 1

\* C26: receiving a hash adds 1 to received and nothing to fetched.  A lookup
\* that fails or finds nothing leaves fetched and the buffer as they were,
\* calls no storage, and the session goes on: to the head of its loop, or out
\* of it if that hash was the last of the count.  A lookup that finds the
\* transaction adds exactly 1 to fetched.
C26_LookupStep ==
    /\ (proc = "sample" /\ pc = "wait" /\ pc' = "fetch") =>
          (stats'.received = stats.received + 1 /\ stats'.fetched = stats.fetched)
    /\ (proc = "sample" /\ pc = "fetch" /\ pc' # pc) =>
          /\ stats'.received = stats.received
          /\ stats'.inserted = stats.inserted
          /\ stats'.insert_errors = stats.insert_errors
          /\ IF hist'.lookup = "some"
             THEN stats'.fetched = stats.fetched + 1
             ELSE /\ hist'.lookup \in {"none", "err"}
                  /\ stats'.fetched = stats.fetched
                  /\ buffer' = buffer
                  /\ call' = call
                  /\ transactions' = transactions
                  /\ pc' = (IF stats.received < max THEN "loop" ELSE "drain")
C26_FailedLookupSkipped == [][C26_LookupStep]_vars

\* a lookup has failed, the lookup of the next hash has found its transaction,
\* and the session waits for a third hash
C26_Witness ==
    /\ proc = "sample"
    /\ pc = "wait"
    /\ stats.received = 2
    /\ stats.fetched = 1
    /\ hist.lookup = "some"
    /\ Len(buffer) = 1

\* the block numbers asked for with get_block_with_txs, in the order asked
NumbersAsked(asked) ==
    LET first == SelectSeq(asked, LAMBDA q : q.method = "get_block_with_txs")
    IN  [i \in 1..Len(first) |-> Unwrap(first[i].block_id)]

\* C27: fetch_recent_blocks(count) with count >= 1 and head h asks for every
\* block number from max(0, h - (count - 1)) to h, each once and in ascending
\* order, and returns its entries in ascending order of block number, at most
\* min(count, h + 1) of them; with count = 0 it returns the empty list and asks
\* the node nothing.
C27_WindowAskedOnceAscending ==
    IsSome(fetch_call.out) =>
        LET res == Unwrap(fetch_call.out)
            nums == NumbersAsked(res.asked)
            h == fetch_call.latest
        IN  IF fetch_call.count = 0
            THEN res.ok /\ res.out = <<>> /\ res.asked = <<>>
            ELSE /\ {nums[i] : i \in DOMAIN nums} = FetchWindow
                 /\ Len(nums) = Cardinality(FetchWindow)
                 /\ \A i, j \in DOMAIN nums : i < j => nums[i] < nums[j]
                 /\ FetchWindow =
                      {b \in BlockNums :
                          b <= h /\ b >= (IF h >= fetch_call.count - 1
                                          THEN h - (fetch_call.count - 1) ELSE 0)}
                 /\ res.ok
                 /\ \A i, j \in DOMAIN res.out :
                       i < j => res.out[i][1].number < res.out[j][1].number
                 /\ Len(res.out) <= fetch_call.count
                 /\ Len(res.out) <= h + 1

\* C28: in every state of a sampling session, fetched <= received <= max and
\* inserted plus the length of the buffer is at most fetched.
C28_StatsOrdered ==
    proc = "sample" =>
        /\ stats.fetched <= stats.received
        /\ stats.received <= max
        /\ stats.inserted + Len(buffer) <= stats.fetched

\* the total size of the batches whose insert_transactions failed
FailedSizes == hist.submitted - hist.ok_sizes

\* C29: when a session returns, the number of fetched transactions that passed
\* the filter equals inserted plus the total size of the failed batches, the
\* transactions passed to insert_transactions are as many as were buffered, and
\* no call is left open: without a failed batch, inserted counts them all.
C29_EveryBufferedPassedOnce ==
    AtEnd =>
        /\ hist.pushed = stats.inserted + FailedSizes
        /\ hist.submitted = hist.pushed
        /\ hist.pushed <= stats.fetched
        /\ stats.insert_errors = 0 => stats.inserted = hist.pushed
        /\ stats.insert_errors > 0 => FailedSizes > 0
        /\ ~InCall

\* a session has returned after a threshold flush that was stored and a final
\* flush of one transaction that failed
C29_Witness ==
    /\ AtEnd
    /\ hist.pushed = flush_every + 1
    /\ stats.inserted = flush_every
    /\ FailedSizes = 1
    /\ stats.insert_errors = 1

\* C30: neither a sampling session nor an ingest-once run calls
\* insert_transactions with an empty batch.  A session that has buffered
\* nothing (no transaction passed the filter, or max is 0) makes no call,
\* leaves table transactions as it was and has inserted = 0 and
\* insert_errors = 0; an iteration of the ingest loop on a block whose filtered
\* list is empty either fails in insert_block or inserts the block, calls
\* nothing else and goes on to the next block.
C30_NoCallInv ==
    /\ (proc \in {"sample", "ingest"} /\ InCall) => call.txs # <<>>
    /\ (proc = "sample" /\ hist.pushed = 0) =>
          /\ ~InCall
          /\ txn = None
          /\ stats.inserted = 0
          /\ stats.insert_errors = 0
          /\ Cardinality(transactions) = hist.rows0
C30_EmptyBlockStep ==
    (proc = "ingest" /\ pc = "ingest_loop" /\ todo # <<>> /\ pc' # "ingest_failed"
        /\ filter_txs(Head(todo)[2], filters) = <<>>) =>
        /\ call' = NoCall
        /\ txn' = None
        /\ transactions' = transactions
        /\ blocks' = InsertOrIgnoreBlock(blocks, Head(todo)[1])
        /\ INGEST_STATS' = INGEST_STATS
        /\ todo' = Tail(todo)
C30_NoEmptyBatch == []C30_NoCallInv /\ [][C30_EmptyBlockStep]_vars

\* a session under a filter has returned with two transactions fetched and
\* none buffered, on a database where an earlier session has stored rows
C30_Witness ==
    /\ AtEnd
    /\ IsSome(filters)
    /\ stats.fetched = 2
    /\ hist.pushed = 0
    /\ stats.inserted = 0
    /\ transactions # {}

====
